---- MODULE Spec2Model ----
(***************************************************************************)
(* Session / API-client layer of the ACME report dashboard.                *)
(*                                                                         *)
(*   ApiClient    src/src/services/api.ts   (token, localStorage slot,     *)
(*                login, request, whoami ..., logout, isAuthenticated)     *)
(*   AuthProvider src/unnamed/part_004      (user, loading, initAuth,      *)
(*                login, logout)                                           *)
(*   AppContent   src/src/App.tsx           (which page is mounted)        *)
(*   LoginPage, ReportDetailsModal  src/unnamed/part_002                   *)
(*   CreateReportModal, Dashboard   src/unnamed/part_001                   *)
(*                                                                         *)
(* Every await of the code is a point where other handlers may run, so a   *)
(* call is split into one action per run-to-completion segment: the part   *)
(* up to the fetch, and the part from the fetch's settlement to the next   *)
(* fetch or to the call's return.                                          *)
(*                                                                         *)
(* Strings are sequences of atoms; the atom "Bearer " stands for that      *)
(* seven-character substring, so prefixing and String.replace are modelled *)
(* by what they do to the sequence.  JavaScript values that may be null or *)
(* undefined are records [ty, s].                                          *)
(***************************************************************************)
EXTENDS Integers, Sequences, FiniteSets, TLC

VARIABLES
    token,      \* ApiClient.token (in-memory credential)
    storage,    \* localStorage slot 'auth_token'
    user,       \* AuthProvider state `user`
    loading,    \* AuthProvider state `loading`
    boot,       \* position of initAuth: "init", "whoami", "done"
    calls,      \* the pending client calls, each with its locals
    lastReq,    \* history: the most recent fetch() issued, with its headers
    lastDone,   \* history: the call that settled most recently, with its outcome
    stored0,    \* history: the storage slot as found at process start
    loginPage,  \* LoginPage state: loading, error
    createModal, \* CreateReportModal state, with Dashboard's showCreateModal
    prevDone,   \* history: a call that settled earlier than lastDone
    dashboard,  \* Dashboard state: reports, templates, flags, currentPage
    loads,      \* the loadData calls in flight, in the order they were issued
    latest,     \* history: how the loadData that ended most recently ended
    detailsModal \* ReportDetailsModal state, with Dashboard's selectedReport

vars == <<token, storage, user, loading, boot, calls, lastReq, lastDone, stored0,
          loginPage, createModal, prevDone, dashboard, loads, latest, detailsModal>>

\* the Dashboard's data and its details modal
board == <<dashboard, loads, latest, detailsModal>>

\* the state of the components below the AuthProvider
ui == <<loginPage, createModal, dashboard, loads, latest, detailsModal>>

\* ---------------------------------------------------------------- bounds
MaxCalls == 2       \* client calls pending at the same time
MaxNow   == 1       \* distinct readings of Date.now()
MaxConcurrent == 1  \* calls that arbitrary callers keep pending at once
MaxLogins == 2      \* logins that concurrent callers keep pending at once
MaxLoads == 2       \* loadData calls in flight at the same time
MaxReports == 18    \* length of the longest reports list

\* ------------------------------------------------------- JavaScript values
Null   == [ty |-> "null", s |-> << >>]
Undef  == [ty |-> "undefined", s |-> << >>]
Str(s) == [ty |-> "string", s |-> s]

\* ToBoolean: null, undefined and '' are falsy
Truthy(v) == v.ty = "string" /\ v.s # << >>

\* a || b
Or(a, b) == IF Truthy(a) THEN a ELSE b

\* String.prototype.replace('Bearer ', ''): removes the FIRST occurrence of
\* the substring, wherever it is.
RECURSIVE replace(_)
replace(s) ==
    IF s = << >> THEN << >>
    ELSE IF Head(s) = "Bearer " THEN Tail(s)
    ELSE <<Head(s)>> \o replace(Tail(s))

NoUser == "null"
Users  == {"u1", "u2"}

\* ---------------------------------------------------------------- ApiError
NoOut ==
    [kind |-> "pending", etype |-> "none", status |-> 0, message |-> << >>,
     errors |-> "undefined", token |-> Null, data |-> NoUser]

ApiError(status, message, errors) ==
    [kind |-> "reject", etype |-> "ApiError", status |-> status,
     message |-> message, errors |-> errors, token |-> Null, data |-> NoUser]

\* an error that is not an ApiError: the TypeError fetch rejects with, or the
\* SyntaxError of response.json()
OtherError(etype) ==
    [kind |-> "reject", etype |-> etype, status |-> 0, message |-> <<etype>>,
     errors |-> "undefined", token |-> Null, data |-> NoUser]

Resolved(tok, data) ==
    [kind |-> "resolve", etype |-> "none", status |-> 0, message |-> << >>,
     errors |-> "undefined", token |-> tok, data |-> data]

\* -------------------------------------------------------- server responses
\* What a fetch() can settle with.  kind "neterr": the fetch rejects.
\* json = FALSE: response.json() rejects (empty or malformed body); the body
\* fields are then undefined.  Header fields hold what headers.get() returns
\* (null when the header is absent).
Response(kind, status, statusText, json, b, t, a, msg, errs, hA, hX, hT, data) ==
    [kind |-> kind, status |-> status, statusText |-> statusText, json |-> json,
     bearer |-> b, token |-> t, access_token |-> a,
     message |-> msg, errors |-> errs,
     hAuthorization |-> hA, hXAuthToken |-> hX, hAccessToken |-> hT,
     data |-> data]

NoResp == Response("none", 0, "", FALSE, Undef, Undef, Undef, Undef, "undefined",
                   Null, Null, Null, NoUser)

\* fetch rejects; `message` is the message of the error it rejects with
NetErr == Response("neterr", 0, "", FALSE, Undef, Undef, Undef,
                   Str(<<"Failed to fetch">>), "undefined",
                   Null, Null, Null, NoUser)

NetErrors == {NetErr, [NetErr EXCEPT !.message = Str(<<"Load failed">>)]}

\* faulty variant: the transport failure is wrapped in an ApiError
FetchError_wrapped(resp) ==
    ApiError(0, resp.message.s, "undefined")

\* the error a rejected fetch hands to its awaiter
FetchError(resp) ==
    [OtherError("TypeError") EXCEPT !.message = resp.message.s]

\* faulty variant: only a server failure counts as a non-success response
ok_lenient(resp) == resp.status >= 200 /\ resp.status <= 499

\* Response.ok
ok(resp) == resp.status >= 200 /\ resp.status <= 299

ErrStatuses == {400, 401, 403, 422, 429, 499, 500, 503}
StatusTexts == {"", "Bad Request"}
Messages    == {Undef, Str(<< >>), Str(<<"server says no">>)}
ErrorMaps   == {"undefined", "e1"}

\* non-success responses: no JSON body, or a body {message?, errors?}
ErrResponses ==
    { Response("http", st, tx, FALSE, Undef, Undef, Undef, Undef, "undefined",
               Null, Null, Null, NoUser) : st \in ErrStatuses, tx \in StatusTexts }
    \cup
    { Response("http", x[1], x[2], TRUE, Undef, Undef, Undef, x[3], x[4],
               Null, Null, Null, NoUser) :
        x \in ErrStatuses \X StatusTexts \X Messages \X ErrorMaps }

\* success responses to POST /login: each of the six token sources carries a
\* token of its own, is empty, or is absent
BearerVals      == {Undef, Str(<< >>), Str(<<"tB">>)}
TokenVals       == {Undef, Str(<< >>), Str(<<"tT">>)}
AccessTokenVals == {Undef, Str(<< >>), Str(<<"tA">>)}
HAuthVals       == {Null, Str(<< >>), Str(<<"Bearer ", "hA">>), Str(<<"hA">>)}
HXAuthVals      == {Null, Str(<< >>), Str(<<"Bearer ", "hX">>), Str(<<"hX">>)}
HAccessVals     == {Null, Str(<< >>), Str(<<"Bearer ", "hT">>),
                    Str(<<"x", "Bearer ", "hT">>)}

LoginOkResponses ==
    { Response("http", 200, "OK", TRUE, x[1], x[2], x[3], Undef, "undefined",
               x[4], x[5], x[6], NoUser) :
        x \in BearerVals \X TokenVals \X AccessTokenVals
              \X HAuthVals \X HXAuthVals \X HAccessVals }
    \cup
    { Response("http", 200, "OK", FALSE, Undef, Undef, Undef, Undef, "undefined",
               x[1], x[2], x[3], NoUser) :
        x \in HAuthVals \X HXAuthVals \X HAccessVals }

\* every response POST /login can get
LoginResponses == NetErrors \cup ErrResponses \cup LoginOkResponses

\* the responses used where the session, not the extraction, is examined: the
\* token comes in the body, as `bearer` or as `token`
SessionLoginResponses ==
    {NetErr}
    \cup { r \in ErrResponses : r.status = 401 /\ r.statusText = "" /\ ~r.json }
    \cup { r \in LoginOkResponses :
             /\ r.json
             /\ r.bearer # Str(<< >>) /\ r.token = Str(<<"tT">>)
             /\ r.access_token = Undef
             /\ r.hAuthorization = Null
             /\ r.hXAuthToken = Null /\ r.hAccessToken = Null }

\* responses to the calls that go through request()
RequestResponses ==
    {NetErr}
    \cup { Response("http", 200, "OK", TRUE, Undef, Undef, Undef, Undef, "undefined",
                    Null, Null, Null, u) : u \in Users }
    \cup { Response("http", 200, "OK", FALSE, Undef, Undef, Undef, Undef, "undefined",
                    Null, Null, Null, NoUser) }
    \cup { r \in ErrResponses : r.status = 401 /\ r.statusText = "" /\ ~r.json }

\* every response a call through request() can get: a validation failure
\* and a server failure with every body, besides the session's responses
AllRequestResponses ==
    NetErrors
    \cup { r \in RequestResponses : r.kind = "http" /\ ok(r) }
    \cup { r \in RequestResponses : r.kind = "http" /\ ~ok(r) }
    \cup { r \in ErrResponses : r.status \in {422, 500} /\ r.statusText = "" }

\* a field-errors map without a usable first message: {} or { name: [] }
NoFieldMessage == "e0"

\* responses to the createReport the modal submits: a validation failure
\* with field errors among them
ModalResponses ==
    LET Invalid == { r \in ErrResponses : r.status = 422 /\ r.statusText = "" /\ r.json
                                          /\ r.message = Str(<<"server says no">>) }
    IN  RequestResponses \cup Invalid
        \cup { [r EXCEPT !.errors = NoFieldMessage] : r \in Invalid }

\* ---------------------------------------------------------------- ApiClient
\* isAuthenticated(): !!this.token
isAuthenticated == Truthy(token)

\* faulty variant: the credential is sent without the 'Bearer ' scheme
RequestAuthorization_raw(tok) ==
    IF Truthy(tok) THEN tok ELSE Undef

\* request(), lines 27-29: the Authorization header assigned when this.token
\* is truthy
RequestAuthorization(tok) ==
    IF Truthy(tok) THEN Str(<<"Bearer ">> \o tok.s) ELSE Undef

\* options.headers as a caller of request() may pass them
NoHeaders == [contentType |-> Undef, authorization |-> Undef]

CallerHeaders ==
    [contentType : {Undef, Str(<<"text/plain">>)},
     authorization : {Undef, Str(<<"Basic ", "x">>)}]

\* request(), lines 22-29: the headers handed to fetch.  The defaults come
\* first, the caller's headers are spread over them, and Authorization is
\* assigned last when a credential is held.
RequestHeaders(tok, hdrs) ==
    [contentType |-> IF hdrs.contentType # Undef THEN hdrs.contentType
                     ELSE Str(<<"application/json">>),
     authorization |-> IF Truthy(tok) THEN RequestAuthorization(tok)
                       ELSE hdrs.authorization]

\* faulty variant: the body's errors map is not passed to the ApiError
RequestOutcome_noFieldErrors(resp) ==
    IF resp.kind = "neterr" THEN FetchError(resp)
    ELSE IF ~ok(resp)
         THEN ApiError(resp.status,
                       IF Truthy(resp.message) THEN resp.message.s
                                               ELSE <<"An error occurred">>,
                       "undefined")
    ELSE IF ~resp.json THEN OtherError("SyntaxError")
    ELSE Resolved(Null, resp.data)

\* request(), lines 36-41: what the call settles with, given fetch's result
RequestOutcome(resp) ==
    IF resp.kind = "neterr" THEN FetchError(resp)
    ELSE IF ~ok(resp)
         THEN ApiError(resp.status,
                       IF Truthy(resp.message) THEN resp.message.s
                                               ELSE <<"An error occurred">>,
                       resp.errors)
    ELSE IF ~resp.json THEN OtherError("SyntaxError")
    ELSE Resolved(Null, resp.data)

\* faulty variant: the status-keyed text is chosen before the server's message is
\* looked at
LoginErrorMessage_cannedFirst(resp) ==
    IF resp.status = 403
         THEN <<"Login failed. Your account may not be enabled for the API beta program. Please contact support for access.">>
    ELSE IF resp.status = 401
         THEN <<"Login failed. Please check your email and password.">>
    ELSE IF resp.status = 429
         THEN <<"Too many login attempts. Please wait a moment before trying again.">>
    ELSE IF resp.status >= 500
         THEN <<"Server error. Please try again later.">>
    ELSE IF Truthy(resp.message) THEN resp.message.s
    ELSE <<"HTTP ", ToString(resp.status), ": ", resp.statusText>>

\* login(), lines 71-86
LoginErrorMessage(resp) ==
    IF Truthy(resp.message) THEN resp.message.s
    ELSE IF resp.status = 403
         THEN <<"Login failed. Your account may not be enabled for the API beta program. Please contact support for access.">>
    ELSE IF resp.status = 401
         THEN <<"Login failed. Please check your email and password.">>
    ELSE IF resp.status = 429
         THEN <<"Too many login attempts. Please wait a moment before trying again.">>
    ELSE IF resp.status >= 500
         THEN <<"Server error. Please try again later.">>
    ELSE <<"HTTP ", ToString(resp.status), ": ", resp.statusText>>

\* login(), lines 102-113: the local `token`
HeaderToken(resp) ==
    Or(resp.hAuthorization, Or(resp.hXAuthToken, resp.hAccessToken))

ExtractToken(resp) ==
    LET body == Or(resp.bearer, Or(resp.token, resp.access_token)) IN
    IF Truthy(body) THEN body
    ELSE LET h == HeaderToken(resp) IN
         IF Truthy(h) THEN Str(replace(h.s)) ELSE h

\* login(), line 124: 'demo-token-' + Date.now()
DemoToken(now) == Str(<<"demo-token-", ToString(now)>>)

\* faulty variant: the placeholder branch is taken whatever was extracted
StoredToken_placeholder(resp, now) == DemoToken(now)

\* login(), lines 117-127: the credential login stores
StoredToken(resp, now) ==
    IF Truthy(ExtractToken(resp)) THEN ExtractToken(resp) ELSE DemoToken(now)

\* ------------------------------------------------------------------- calls
\* A pending call.  op: the client operation; via: who awaits it ("boot":
\* initAuth, "ctx": AuthProvider.login, "page": a component, "modal": the
\* create-report modal); pc: the await it is suspended at; tok0: this.token
\* when a login began; tok: the credential a login stored; resp: the response
\* to POST /login; sent: the fetches the call has issued so far
Call(op, via, pc, tok0, tok, resp, sent) ==
    [op |-> op, via |-> via, pc |-> pc, tok0 |-> tok0, tok |-> tok, resp |-> resp,
     sent |-> sent]

Idle == Call("none", "none", "idle", Null, Null, NoResp, 0)

\* a settled call: the operation, the await it was suspended at, this.token
\* when a login began, the response that resumed the call, what the call
\* resolved or rejected with and the fetches it had issued
Done(op, at, tok0, resp, out, sent) ==
    [op |-> op, at |-> at, tok0 |-> tok0, resp |-> resp, out |-> out,
     sent |-> sent]

\* a fetch as issued: endpoint, method, the Content-Type and Authorization
\* headers, this.token at that moment and the headers the caller supplied
Request(endpoint, method, headers, held, supplied) ==
    [endpoint |-> endpoint, method |-> method,
     contentType |-> headers.contentType,
     authorization |-> headers.authorization,
     held |-> held, supplied |-> supplied]

NoReq == Request("none", "none", NoHeaders, Null, NoHeaders)

CallIds == 1..MaxCalls

Ops == {"whoami", "ping", "templates", "reports", "templateReports",
        "report", "createReport"}

Method(op) == IF op = "createReport" THEN "POST" ELSE "GET"

\* the operations the Dashboard and its modals invoke
DashboardOps == {"templates", "reports", "report", "createReport"}

LoginInFlight == \E c \in CallIds : calls[c].op = "login"

\* the slot a new call takes
IsFree(c) == calls[c].pc = "idle" /\ \A d \in 1..(c - 1) : calls[d].pc # "idle"

\* LoginPage as mounted: useState(false), useState('')
LoginPage0 == [loading |-> FALSE, error |-> << >>]

\* CreateReportModal as mounted, closed (Dashboard's showCreateModal false):
\* formData stands for the required fields, "filled" when name and template
\* are set; call is the createReport call its handleSubmit is awaiting
CreateReportModal0 ==
    [isOpen |-> FALSE, loading |-> FALSE, error |-> << >>, formData |-> "empty",
     call |-> 0, reports |-> 0]

\* Dashboard, lines 277-285: a reports list is its length, a templates list
\* its identity; `mounted` is set once the mount effect has run
PerPage == 8
Dashboard0 ==
    [reports |-> 0, templates |-> "none", loading |-> TRUE, refreshing |-> FALSE,
     currentPage |-> 1, mounted |-> FALSE]

\* a loadData call awaiting Promise.all: which of getReports and getTemplates
\* has resolved, and (history) whether a loadData issued later has set its
\* lists already
Load0 == [reports |-> FALSE, templates |-> FALSE, stale |-> FALSE]

\* ReportDetailsModal, lines 195-197, and Dashboard's selectedReport
Reports == {"r1", "r2"}
NoData == [kind |-> "null", id |-> "none"]
ReportDetailsModal0 ==
    [isOpen |-> FALSE, report |-> "none", fullReportData |-> NoData,
     loading |-> FALSE, error |-> << >>]

\* faulty variant: the constructor does not read the stored token
Init_tokenNotRestored ==
    /\ storage \in {Null, Str(<<"t0">>)}
    /\ token = Null
    /\ stored0 = storage
    /\ user = NoUser
    /\ loading = TRUE
    /\ boot = "init"
    /\ calls = [c \in CallIds |-> Idle]
    /\ lastReq = NoReq
    /\ lastDone = Done("none", "idle", Null, NoResp, NoOut, 0)
    /\ loginPage = LoginPage0
    /\ createModal = CreateReportModal0
    /\ prevDone = lastDone
    /\ dashboard = Dashboard0
    /\ loads = << >>
    /\ latest = "none"
    /\ detailsModal = ReportDetailsModal0

Init ==
    /\ storage \in {Null, Str(<<"t0">>)}
    /\ token = storage                       \* constructor, line 16
    /\ stored0 = storage
    /\ user = NoUser
    /\ loading = TRUE
    /\ boot = "init"
    /\ calls = [c \in CallIds |-> Idle]
    /\ lastReq = NoReq
    /\ lastDone = Done("none", "idle", Null, NoResp, NoOut, 0)
    /\ loginPage = LoginPage0
    /\ createModal = CreateReportModal0
    /\ prevDone = lastDone
    /\ dashboard = Dashboard0
    /\ loads = << >>
    /\ latest = "none"
    /\ detailsModal = ReportDetailsModal0

\* faulty variant: logout forgets localStorage.removeItem
ApiClient_logout_keepsStorage ==
    /\ token' = Null
    /\ UNCHANGED storage

\* ApiClient.logout()
ApiClient_logout ==
    /\ token' = Null
    /\ storage' = Null

\* faulty variant: the fetch is issued a second time
ApiClient_request_twice(op, via, hdrs) ==
    \E c \in CallIds :
        /\ IsFree(c)
        /\ calls' = [calls EXCEPT ![c] = Call(op, via, "fetch", Null, Null, NoResp, 2)]
        /\ lastReq' = Request(op, Method(op), RequestHeaders(token, hdrs), token, hdrs)

\* request(endpoint, options): everything up to `await fetch`
ApiClient_request(op, via, hdrs) ==
    \E c \in CallIds :
        /\ IsFree(c)
        /\ calls' = [calls EXCEPT ![c] = Call(op, via, "fetch", Null, Null, NoResp, 1)]
        /\ lastReq' = Request(op, Method(op), RequestHeaders(token, hdrs), token, hdrs)

\* whoami(), ping(), getTemplates() ...: request() with a method and a body,
\* no headers
fetch(op, via) == ApiClient_request(op, via, NoHeaders)

\* a call settles
Settle(c, resp, out) ==
    /\ calls' = [calls EXCEPT ![c] = Idle]
    /\ lastDone' = Done(calls[c].op, calls[c].pc, calls[c].tok0, resp, out,
                        calls[c].sent)

\* ------------------------------------------------------------ AuthProvider
\* faulty variant: initAuth looks the user up without asking isAuthenticated()
initAuth_alwaysWhoami ==
    /\ boot = "init"
    /\ fetch("whoami", "boot")
    /\ boot' = "whoami"
    /\ UNCHANGED <<loading, token, storage, user, lastDone, stored0>>

\* initAuth up to its await (or to its end when no credential is held)
initAuth ==
    /\ boot = "init"
    /\ IF isAuthenticated
       THEN /\ fetch("whoami", "boot")
            /\ boot' = "whoami"
            /\ UNCHANGED loading
       ELSE /\ boot' = "done"
            /\ loading' = FALSE
            /\ UNCHANGED <<calls, lastReq>>
    /\ UNCHANGED <<token, storage, user, lastDone, stored0>>

\* faulty variant: the user returned by the bootstrap whoami is not kept
initAuth_try_dropsUser(userData) ==
    UNCHANGED <<user, token, storage>>

\* initAuth, the rest of the try block: setUser(userData)
initAuth_try(userData) ==
    /\ user' = userData
    /\ UNCHANGED <<token, storage>>

\* faulty variant: the catch block swallows the failure and keeps the credential
initAuth_catch_keepsCredential ==
    UNCHANGED <<token, storage, user>>

\* initAuth, the catch block: apiClient.logout()
initAuth_catch ==
    /\ ApiClient_logout
    /\ UNCHANGED user

\* faulty variant: setLoading(false) is reached on the success path only
initAuth_whoami_staysLoading(c, Rs) ==
    /\ calls[c].via = "boot" /\ calls[c].pc = "fetch"
    /\ \E resp \in Rs :
         LET out == RequestOutcome(resp) IN
         /\ Settle(c, resp, out)
         /\ IF out.kind = "resolve" THEN initAuth_try(out.data) /\ loading' = FALSE
                                    ELSE initAuth_catch /\ UNCHANGED loading
    /\ boot' = "done"
    /\ UNCHANGED <<lastReq, stored0>>

\* initAuth after `await apiClient.whoami()`
initAuth_whoami(c, Rs) ==
    /\ calls[c].via = "boot" /\ calls[c].pc = "fetch"
    /\ \E resp \in Rs :
         LET out == RequestOutcome(resp) IN
         /\ Settle(c, resp, out)
         /\ IF out.kind = "resolve" THEN initAuth_try(out.data)
                                    ELSE initAuth_catch
    /\ loading' = FALSE
    /\ boot' = "done"
    /\ UNCHANGED <<lastReq, stored0>>

\* faulty variant: the context sets a user before the login has returned
AuthProvider_login_optimistic ==
    /\ boot # "init"
    /\ \E c \in CallIds :
         /\ IsFree(c)
         /\ calls' = [calls EXCEPT ![c] = Call("login", "ctx", "post", token, Null,
                                                 NoResp, 1)]
    /\ lastReq' = Request("login", "POST",
                          [contentType |-> Str(<<"application/json">>),
                           authorization |-> Undef],
                          token, NoHeaders)
    /\ user' = "u1"
    /\ UNCHANGED <<token, storage, loading, boot, lastDone, stored0>>

\* AuthProvider.login -> ApiClient.login up to `await fetch(url, ...)`: the
\* POST /login is built with a Content-Type header only
AuthProvider_login ==
    /\ boot # "init"
    /\ \E c \in CallIds :
         /\ IsFree(c)
         /\ calls' = [calls EXCEPT ![c] = Call("login", "ctx", "post", token, Null,
                                                 NoResp, 1)]
    /\ lastReq' = Request("login", "POST",
                          [contentType |-> Str(<<"application/json">>),
                           authorization |-> Undef],
                          token, NoHeaders)
    /\ UNCHANGED <<token, storage, user, loading, boot, lastDone, stored0>>

\* faulty variant: the follow-up whoami is built before the credential is
\* stored
login_response_headerFirst(c, Rs) ==
    /\ calls[c].op = "login" /\ calls[c].pc = "post"
    /\ \E resp \in Rs, now \in 1..MaxNow :
         IF resp.kind = "neterr"
         THEN /\ Settle(c, resp, FetchError(resp))
              /\ UNCHANGED <<token, storage, lastReq>>
         ELSE IF ~ok(resp)
         THEN /\ Settle(c, resp, ApiError(resp.status, LoginErrorMessage(resp),
                                          resp.errors))
              /\ UNCHANGED <<token, storage, lastReq>>
         ELSE /\ token' = StoredToken(resp, now)
              /\ storage' = StoredToken(resp, now)
              /\ calls' = [calls EXCEPT ![c].pc = "whoami", ![c].resp = resp,
                                        ![c].tok = StoredToken(resp, now),
                                        ![c].sent = @ + 1]
              /\ lastReq' = Request("whoami", "GET",
                                    RequestHeaders(token, NoHeaders), token,
                                    NoHeaders)
              /\ UNCHANGED lastDone
    /\ UNCHANGED <<user, loading, boot, stored0>>

\* ApiClient.login from the settlement of POST /login to the fetch of the
\* follow-up whoami, or to the throw
login_response(c, Rs) ==
    /\ calls[c].op = "login" /\ calls[c].pc = "post"
    /\ \E resp \in Rs, now \in 1..MaxNow :
         IF resp.kind = "neterr"
         THEN /\ Settle(c, resp, FetchError(resp))
              /\ UNCHANGED <<token, storage, lastReq>>
         ELSE IF ~ok(resp)
         THEN /\ Settle(c, resp, ApiError(resp.status, LoginErrorMessage(resp),
                                          resp.errors))
              /\ UNCHANGED <<token, storage, lastReq>>
         ELSE /\ token' = StoredToken(resp, now)
              /\ storage' = StoredToken(resp, now)
              /\ calls' = [calls EXCEPT ![c].pc = "whoami", ![c].resp = resp,
                                        ![c].tok = StoredToken(resp, now),
                                        ![c].sent = @ + 1]
              \* this.whoami() -> request(): headers built from this.token
              /\ lastReq' = Request("whoami", "GET",
                                    RequestHeaders(token', NoHeaders), token',
                                    NoHeaders)
              /\ UNCHANGED lastDone
    /\ UNCHANGED <<user, loading, boot, stored0>>

\* faulty variant: a 401 on the follow-up whoami makes request drop the
\* credential
login_whoami_clearsOn401(c, Rs) ==
    /\ calls[c].op = "login" /\ calls[c].pc = "whoami"
    /\ \E resp \in Rs :
         LET w   == RequestOutcome(resp)
             out == IF w.kind = "resolve" THEN Resolved(token, w.data) ELSE w
         IN
         /\ Settle(c, resp, out)
         /\ user' = IF out.kind = "resolve" THEN out.data ELSE user
         /\ token' = IF resp.kind = "http" /\ resp.status = 401 THEN Null ELSE token
         /\ storage' = IF resp.kind = "http" /\ resp.status = 401 THEN Null ELSE storage
    /\ UNCHANGED <<loading, boot, lastReq, stored0>>

\* ApiClient.login after `await this.whoami()`, and AuthProvider.login after
\* `await apiClient.login(...)`
login_whoami(c, Rs) ==
    /\ calls[c].op = "login" /\ calls[c].pc = "whoami"
    /\ \E resp \in Rs :
         LET w   == RequestOutcome(resp)
             out == IF w.kind = "resolve" THEN Resolved(token, w.data) ELSE w
         IN
         /\ Settle(c, resp, out)
         /\ user' = IF out.kind = "resolve" THEN out.data ELSE user
    /\ UNCHANGED <<token, storage, loading, boot, lastReq, stored0>>

\* AuthProvider.logout
AuthProvider_logout ==
    /\ boot # "init"
    /\ ApiClient_logout
    /\ user' = NoUser
    /\ UNCHANGED <<loading, boot, calls, lastReq, lastDone, stored0>>

\* faulty variant: a read throws the credential away
request_clearsToken(op) ==
    /\ boot # "init"
    /\ fetch(op, "page")
    /\ token' = Null
    /\ UNCHANGED <<storage, user, loading, boot, lastDone, stored0>>

\* a component calls one of the operations built on request()
request(op) ==
    /\ boot # "init"
    /\ fetch(op, "page")
    /\ UNCHANGED <<token, storage, user, loading, boot, lastDone, stored0>>

\* faulty variant: a 401 on any call clears the credential
request_response_clearsOn401(c, Rs) ==
    /\ calls[c].via = "page" /\ calls[c].pc = "fetch"
    /\ \E resp \in Rs :
         /\ Settle(c, resp, RequestOutcome(resp))
         /\ IF resp.kind = "http" /\ resp.status = 401
            THEN ApiClient_logout
            ELSE UNCHANGED <<token, storage>>
    /\ UNCHANGED <<user, loading, boot, lastReq, stored0>>

\* a caller of request(endpoint, options) that passes headers
request_options(op, hdrs) ==
    /\ boot # "init"
    /\ ApiClient_request(op, "page", hdrs)
    /\ UNCHANGED <<token, storage, user, loading, boot, lastDone, stored0>>

\* ... and the call settles
request_response(c, Rs) ==
    /\ calls[c].via = "page" /\ calls[c].pc = "fetch"
    /\ \E resp \in Rs : Settle(c, resp, RequestOutcome(resp))
    /\ UNCHANGED <<token, storage, user, loading, boot, lastReq, stored0>>

\* ------------------------------------------------------------- AppContent
\* App.tsx: spinner while loading, then Dashboard or LoginPage
LoginPageMounted == ~loading /\ user = NoUser
DashboardMounted == ~loading /\ user # NoUser

\* LoginPage: the submit button is disabled while its login call is pending
SubmitEnabled == LoginPageMounted /\ ~LoginInFlight

\* --------------------------------------------------------------- LoginPage
\* `err instanceof Error`: ApiError extends Error, and fetch and
\* response.json() reject with TypeError and SyntaxError
IsError(out) == out.etype \in {"ApiError", "TypeError", "SyntaxError"}

\* handleSubmit, the catch block: the text put in `error`
LoginPage_catch(out) ==
    IF out.etype = "ApiError" THEN out.message
    ELSE IF IsError(out) THEN out.message
    ELSE <<"An unexpected error occurred">>

\* handleSubmit up to `await login(email, password)`
LoginPage_handleSubmit ==
    /\ LoginPageMounted
    /\ ~loginPage.loading                     \* button disabled={loading}
    /\ AuthProvider_login
    /\ loginPage' = [loading |-> TRUE, error |-> << >>]
    /\ UNCHANGED createModal

\* handleSubmit resumed by a login that threw on the POST /login response
LoginPage_login_response(c, Rs) ==
    /\ login_response(c, Rs)
    /\ loginPage' = IF calls'[c].pc = "idle"
                    THEN [loading |-> FALSE, error |-> LoginPage_catch(lastDone'.out)]
                    ELSE loginPage
    /\ UNCHANGED createModal

\* handleSubmit resumed after the follow-up whoami; a login that resolved has
\* set the user, and the LoginPage is replaced by the Dashboard
LoginPage_login_whoami(c, Rs) ==
    /\ login_whoami(c, Rs)
    /\ loginPage' = IF lastDone'.out.kind = "reject"
                    THEN [loading |-> FALSE, error |-> LoginPage_catch(lastDone'.out)]
                    ELSE LoginPage0
    /\ UNCHANGED createModal

\* ------------------------------------------------------- CreateReportModal
\* Dashboard: the 'Create Report' button, setShowCreateModal(true)
Dashboard_openCreateModal ==
    /\ DashboardMounted /\ ~createModal.isOpen
    /\ createModal' = [createModal EXCEPT !.isOpen = TRUE]
    /\ UNCHANGED <<token, storage, user, loading, boot, calls, lastReq, lastDone,
                   stored0, loginPage>>

\* the user types a name and selects a template
CreateReportModal_fill ==
    /\ DashboardMounted /\ createModal.isOpen /\ createModal.formData = "empty"
    /\ createModal' = [createModal EXCEPT !.formData = "filled"]
    /\ UNCHANGED <<token, storage, user, loading, boot, calls, lastReq, lastDone,
                   stored0, loginPage>>

\* the slot a call started now takes
FreeSlot == CHOOSE c \in CallIds : IsFree(c)

\* handleSubmit up to `await apiClient.createReport(requestData)`
CreateReportModal_handleSubmit ==
    /\ DashboardMounted /\ createModal.isOpen
    \* disabled={loading || !formData.name || !formData.template_id}
    /\ ~createModal.loading /\ createModal.formData = "filled"
    /\ dashboard.reports < MaxReports
    /\ fetch("createReport", "modal")
    \* onSuccess is the closure of this render: it holds this render's `reports`
    /\ createModal' = [createModal EXCEPT !.loading = TRUE, !.error = << >>,
                                          !.call = FreeSlot,
                                          !.reports = dashboard.reports]
    /\ UNCHANGED <<token, storage, user, loading, boot, lastDone, stored0, loginPage>>

\* faulty variant: the catch block stops at setError(err.message)
CreateReportModal_catch_messageOnly(out) ==
    IF out.etype = "ApiError"
    THEN out.message
    ELSE <<"An unexpected error occurred">>

\* handleSubmit, the catch block: the text put in `error`.  setError(err.message)
\* is overwritten by firstError[0] when err.errors is set and
\* Object.values(err.errors)[0] is a non-empty array.
CreateReportModal_catch(out) ==
    IF out.etype = "ApiError"
    THEN IF out.errors \notin {"undefined", NoFieldMessage}
         THEN <<out.errors, "[0]">>
         ELSE out.message
    ELSE <<"An unexpected error occurred">>

\* Dashboard, lines 613-617: the onSuccess handed to the modal prepends the
\* new report to the `reports` of the render it was made in and shows page 1
Dashboard_onSuccess(reports0) ==
    [dashboard EXCEPT !.reports = reports0 + 1, !.currentPage = 1]

\* handleSubmit resumed: onSuccess (Dashboard prepends the report and closes
\* the modal) and the form reset, or the catch block; then setLoading(false).
\* A modal that was unmounted meanwhile is not touched.
CreateReportModal_response(c, Rs) ==
    /\ calls[c].via = "modal" /\ calls[c].pc = "fetch"
    /\ \E resp \in Rs :
         LET out == RequestOutcome(resp) IN
         /\ Settle(c, resp, out)
         /\ createModal' =
              IF createModal.call # c THEN createModal
              ELSE IF out.kind = "resolve" THEN CreateReportModal0
              ELSE [createModal EXCEPT !.loading = FALSE, !.call = 0,
                                       !.reports = 0,
                                       !.error = CreateReportModal_catch(out)]
         /\ dashboard' =
              IF createModal.call = c /\ out.kind = "resolve"
              THEN Dashboard_onSuccess(createModal.reports)
              ELSE dashboard
    /\ UNCHANGED <<token, storage, user, loading, boot, lastReq, stored0, loginPage>>

\* faulty variant: handleClose does not look at `loading`
CreateReportModal_handleClose_always ==
    /\ DashboardMounted /\ createModal.isOpen
    /\ createModal' = CreateReportModal0
    /\ UNCHANGED <<token, storage, user, loading, boot, calls, lastReq, lastDone,
                   stored0, loginPage>>

\* handleClose: the Cancel button, the modal's close button and its backdrop
CreateReportModal_handleClose ==
    /\ DashboardMounted /\ createModal.isOpen
    /\ createModal' = IF ~createModal.loading
                      THEN CreateReportModal0     \* onClose(), error and form reset
                      ELSE createModal
    /\ UNCHANGED <<token, storage, user, loading, boot, calls, lastReq, lastDone,
                   stored0, loginPage>>

\* the logout button of the Dashboard; the Dashboard and its modals unmount
Dashboard_logout ==
    /\ DashboardMounted
    /\ AuthProvider_logout
    /\ createModal' = CreateReportModal0
    \* the interval is cleared; what a loadData still in flight sets is the
    \* state of an unmounted component
    /\ dashboard' = Dashboard0
    /\ loads' = << >>
    /\ latest' = "none"
    /\ detailsModal' = ReportDetailsModal0
    /\ UNCHANGED loginPage

\* ---------------------------------------------------------------- Dashboard
\* the lists the server returns: reports (after the parent_id filter) that
\* fill no page, two pages and three pages; two templates lists
ServedReports == {0, PerPage + 1, 2 * PerPage + 1}
ServedTemplates == {"T1", "T2"}

\* responses to getReports and getTemplates: the list, a transport failure,
\* a 401
LoadResponses ==
    { r \in RequestResponses : r.kind = "neterr" \/ ~ok(r) }
    \cup { Response("http", 200, "OK", TRUE, Undef, Undef, Undef, Undef, "undefined",
                    Null, Null, Null, "list") }

\* line 325: Math.ceil(reports.length / itemsPerPage)
totalPages(n) == (n + PerPage - 1) \div PerPage

\* the Dashboard shows its page: not the 'Loading dashboard...' screen, and
\* no modal over it
PageShown ==
    /\ DashboardMounted /\ dashboard.mounted /\ ~dashboard.loading
    /\ ~createModal.isOpen /\ ~detailsModal.isOpen

\* loadData up to `await Promise.all([getReports(), getTemplates()])`
loadData ==
    /\ Len(loads) < MaxLoads
    /\ loads' = Append(loads, Load0)
    \* getTemplates() is the later of the two fetches
    /\ lastReq' = Request("templates", "GET", RequestHeaders(token, NoHeaders),
                          token, NoHeaders)
    /\ UNCHANGED latest

\* the mount effect: the first loadData, and the 5-second interval
Dashboard_useEffect ==
    /\ DashboardMounted /\ ~dashboard.mounted
    /\ loadData
    /\ dashboard' = [dashboard EXCEPT !.mounted = TRUE]
    /\ UNCHANGED <<token, storage, user, loading, boot, calls, lastDone, stored0,
                   loginPage, createModal, detailsModal>>

\* a tick of the interval
Dashboard_interval ==
    /\ DashboardMounted /\ dashboard.mounted
    /\ loadData
    /\ UNCHANGED <<token, storage, user, loading, boot, calls, lastDone, stored0,
                   loginPage, createModal, detailsModal, dashboard>>

\* handleRefresh: the Refresh button, disabled={refreshing}
Dashboard_handleRefresh ==
    /\ PageShown /\ ~dashboard.refreshing
    /\ loadData
    /\ dashboard' = [dashboard EXCEPT !.refreshing = TRUE]
    /\ UNCHANGED <<token, storage, user, loading, boot, calls, lastDone, stored0,
                   loginPage, createModal, detailsModal>>

\* what loadData's finally does
loadData_finally(d) == [d EXCEPT !.loading = FALSE, !.refreshing = FALSE]

\* the loads in flight without load i
Without(i) == [k \in 1..(Len(loads) - 1) |-> IF k < i THEN loads[k] ELSE loads[k + 1]]

\* the loads in flight once load i has set its lists: load i is gone, and
\* the loads issued before it are stale
Superseded(i) ==
    [k \in 1..(Len(loads) - 1) |->
        IF k < i THEN [loads[k] EXCEPT !.stale = TRUE] ELSE loads[k + 1]]

\* faulty variant: the list that did arrive is shown although the other
\* fetch failed
loadData_response_keepsPartial(i, Rs) ==
    /\ i \in 1..Len(loads)
    /\ \E resp \in Rs, which \in {"reports", "templates"},
          n \in ServedReports, t \in ServedTemplates :
         LET out == RequestOutcome(resp)
             got == IF which = "reports" THEN [loads[i] EXCEPT !.reports = TRUE]
                                         ELSE [loads[i] EXCEPT !.templates = TRUE]
         IN
         /\ which = "reports" => ~loads[i].reports
         /\ which = "templates" => ~loads[i].templates
         /\ IF out.kind = "reject"
            THEN /\ loads' = Without(i)
                 /\ dashboard' = loadData_finally(
                        [dashboard EXCEPT
                           !.reports = IF loads[i].reports THEN n ELSE @,
                           !.templates = IF loads[i].templates THEN t ELSE @])
                 /\ latest' = IF loads[i].reports \/ loads[i].templates
                               THEN "failedAfterOne" ELSE "failed"
            ELSE IF got.reports /\ got.templates
            THEN /\ loads' = Superseded(i)
                 /\ dashboard' = loadData_finally(
                        [dashboard EXCEPT !.reports = n, !.templates = t])
                 /\ latest' = "loaded"
            ELSE /\ loads' = [loads EXCEPT ![i] = got]
                 /\ UNCHANGED <<dashboard, latest>>
    /\ UNCHANGED <<token, storage, user, loading, boot, calls, lastReq, lastDone,
                   stored0, loginPage, createModal, detailsModal>>

\* loadData resumed by one of its two fetches.  A fetch that resolves while
\* the other is pending is kept by Promise.all; when both have resolved the
\* lists n and t they brought are set; the first fetch that rejects rejects
\* Promise.all, and the catch block only logs.  finally clears both flags.
\* Nothing reads a list before Promise.all resolves, so the lists are drawn
\* in the step that sets them.
loadData_response(i, Rs) ==
    /\ i \in 1..Len(loads)
    /\ \E resp \in Rs, which \in {"reports", "templates"},
          n \in ServedReports, t \in ServedTemplates :
         LET out == RequestOutcome(resp)
             got == IF which = "reports" THEN [loads[i] EXCEPT !.reports = TRUE]
                                         ELSE [loads[i] EXCEPT !.templates = TRUE]
         IN
         /\ which = "reports" => ~loads[i].reports
         /\ which = "templates" => ~loads[i].templates
         /\ IF out.kind = "reject"
            THEN /\ loads' = Without(i)
                 /\ dashboard' = loadData_finally(dashboard)
                 /\ latest' = IF loads[i].reports \/ loads[i].templates
                               THEN "failedAfterOne" ELSE "failed"
            ELSE IF got.reports /\ got.templates
            THEN /\ loads' = Superseded(i)
                 /\ dashboard' = loadData_finally(
                        [dashboard EXCEPT !.reports = n, !.templates = t])
                 /\ latest' = "loaded"
            ELSE /\ loads' = [loads EXCEPT ![i] = got]
                 /\ UNCHANGED <<dashboard, latest>>
    /\ UNCHANGED <<token, storage, user, loading, boot, calls, lastReq, lastDone,
                   stored0, loginPage, createModal, detailsModal>>

\* handlePrevPage: the Previous button, disabled={currentPage === 1}
Dashboard_handlePrevPage ==
    /\ PageShown /\ dashboard.reports > 0 /\ dashboard.currentPage # 1
    /\ dashboard' = IF dashboard.currentPage > 1
                    THEN [dashboard EXCEPT !.currentPage = @ - 1]
                    ELSE dashboard
    /\ UNCHANGED <<token, storage, user, loading, boot, calls, lastReq, lastDone,
                   stored0, loginPage, createModal, detailsModal, loads, latest>>

\* handleNextPage: the Next button, disabled={currentPage === totalPages}
Dashboard_handleNextPage ==
    /\ PageShown /\ dashboard.reports > 0
    /\ dashboard.currentPage # totalPages(dashboard.reports)
    /\ dashboard' = IF dashboard.currentPage < totalPages(dashboard.reports)
                    THEN [dashboard EXCEPT !.currentPage = @ + 1]
                    ELSE dashboard
    /\ UNCHANGED <<token, storage, user, loading, boot, calls, lastReq, lastDone,
                   stored0, loginPage, createModal, detailsModal, loads, latest>>

\* lines 563-591: the page numbers on the (at most five) page buttons
PageButtons ==
    LET tp == totalPages(dashboard.reports)
        cp == dashboard.currentPage
        shown == IF tp < 5 THEN tp ELSE 5
    IN { IF tp <= 5 THEN i + 1
         ELSE IF cp <= 3 THEN i + 1
         ELSE IF cp >= tp - 2 THEN tp - 4 + i
         ELSE cp - 2 + i : i \in 0..(shown - 1) }

\* handlePageChange: a page button
Dashboard_handlePageChange(page) ==
    /\ PageShown /\ dashboard.reports > 0
    /\ page \in PageButtons
    /\ dashboard' = [dashboard EXCEPT !.currentPage = page]
    /\ UNCHANGED <<token, storage, user, loading, boot, calls, lastReq, lastDone,
                   stored0, loginPage, createModal, detailsModal, loads, latest>>

\* ------------------------------------------------------ ReportDetailsModal
\* handleReportClick on a row of the table, and the effect that the new
\* isOpen and report trigger in the modal: fetchFullReportData up to
\* `await apiClient.getReport(report.id)`.  The call keeps the report of
\* its closure in `via`.
Dashboard_handleReportClick(r) ==
    /\ PageShown /\ dashboard.reports > 0
    /\ fetch("report", r)
    /\ detailsModal' = [detailsModal EXCEPT !.isOpen = TRUE, !.report = r,
                                            !.loading = TRUE, !.error = << >>]
    /\ UNCHANGED <<token, storage, user, loading, boot, lastDone, stored0,
                   loginPage, createModal, dashboard, loads, latest>>

\* fetchFullReportData resumed: the fetched report, or the error text and the
\* listing data of the closure's report; then setLoading(false)
ReportDetailsModal_response(c, Rs) ==
    /\ calls[c].op = "report" /\ calls[c].via \in Reports /\ calls[c].pc = "fetch"
    /\ \E resp \in Rs :
         LET out == RequestOutcome(resp) IN
         /\ Settle(c, resp, out)
         /\ detailsModal' =
              IF out.kind = "resolve"
              THEN [detailsModal EXCEPT
                      !.fullReportData = [kind |-> "full", id |-> calls[c].via],
                      !.loading = FALSE]
              ELSE [detailsModal EXCEPT
                      !.error = out.message,
                      !.fullReportData = [kind |-> "listing", id |-> calls[c].via],
                      !.loading = FALSE]
    /\ UNCHANGED <<token, storage, user, loading, boot, lastReq, stored0,
                   loginPage, createModal, dashboard, loads, latest>>

\* handleClose: onClose() (Dashboard hides the modal and clears
\* selectedReport), setError(null), setFullReportData(null)
ReportDetailsModal_handleClose ==
    /\ DashboardMounted /\ detailsModal.isOpen
    /\ detailsModal' = [detailsModal EXCEPT !.isOpen = FALSE, !.report = "none",
                                            !.error = << >>,
                                            !.fullReportData = NoData]
    /\ UNCHANGED <<token, storage, user, loading, boot, calls, lastReq, lastDone,
                   stored0, loginPage, createModal, dashboard, loads, latest>>

\* ----------------------------------------------------------- specifications
\* The application as composed: the pages decide which operation can start.
Next ==
    \/ initAuth /\ UNCHANGED <<ui, prevDone>>
    \/ \E c \in CallIds : initAuth_whoami(c, RequestResponses) /\ UNCHANGED <<ui, prevDone>>
    \/ SubmitEnabled /\ AuthProvider_login /\ UNCHANGED <<ui, prevDone>>
    \/ \E c \in CallIds : login_response(c, SessionLoginResponses) /\ UNCHANGED <<ui, prevDone>>
    \/ \E c \in CallIds : login_whoami(c, RequestResponses) /\ UNCHANGED <<ui, prevDone>>
    \/ DashboardMounted /\ AuthProvider_logout /\ UNCHANGED <<ui, prevDone>>
    \/ DashboardMounted /\ \E op \in DashboardOps : request(op) /\ UNCHANGED <<ui, prevDone>>
    \/ \E c \in CallIds : request_response(c, RequestResponses) /\ UNCHANGED <<ui, prevDone>>

Spec == Init /\ [][Next]_vars

\* The client and the context driven by arbitrary callers: any operation may
\* start at any time after mount, whatever is mounted or pending.
Pending == Cardinality({c \in CallIds : calls[c].pc # "idle"})

ApiNext ==
    \/ initAuth /\ UNCHANGED <<ui, prevDone>>
    \/ \E c \in CallIds : initAuth_whoami(c, RequestResponses) /\ UNCHANGED <<ui, prevDone>>
    \/ Pending < MaxConcurrent /\ AuthProvider_login /\ UNCHANGED <<ui, prevDone>>
    \/ \E c \in CallIds : login_response(c, SessionLoginResponses) /\ UNCHANGED <<ui, prevDone>>
    \/ \E c \in CallIds : login_whoami(c, RequestResponses) /\ UNCHANGED <<ui, prevDone>>
    \/ AuthProvider_logout /\ UNCHANGED <<ui, prevDone>>
    \/ Pending < MaxConcurrent /\ \E op \in Ops : request(op) /\ UNCHANGED <<ui, prevDone>>
    \/ \E c \in CallIds : request_response(c, RequestResponses) /\ UNCHANGED <<ui, prevDone>>

ApiSpec == Init /\ [][ApiNext]_vars

\* The first login of a run against every response POST /login can get.
LoginNext ==
    \/ initAuth /\ UNCHANGED <<ui, prevDone>>
    \/ \E c \in CallIds : initAuth_whoami(c, RequestResponses) /\ UNCHANGED <<ui, prevDone>>
    \/ SubmitEnabled /\ lastDone.op # "login" /\ AuthProvider_login /\ UNCHANGED <<ui, prevDone>>
    \/ \E c \in CallIds : login_response(c, LoginResponses) /\ UNCHANGED <<ui, prevDone>>
    \/ \E c \in CallIds : login_whoami(c, RequestResponses) /\ UNCHANGED <<ui, prevDone>>

LoginSpec == Init /\ [][LoginNext]_vars

\* The pages as the user drives them: the login form, and on the Dashboard the
\* create-report modal and the logout button.
PageNext ==
    \/ initAuth /\ UNCHANGED <<ui, prevDone>>
    \/ \E c \in CallIds : initAuth_whoami(c, RequestResponses) /\ UNCHANGED <<ui, prevDone>>
    \/ LoginPage_handleSubmit /\ UNCHANGED <<prevDone, board>>
    \/ \E c \in CallIds : LoginPage_login_response(c, SessionLoginResponses)
                               /\ UNCHANGED <<prevDone, board>>
    \/ \E c \in CallIds : LoginPage_login_whoami(c, RequestResponses)
                               /\ UNCHANGED <<prevDone, board>>
    \/ Dashboard_logout /\ UNCHANGED prevDone
    \/ Dashboard_openCreateModal /\ UNCHANGED <<prevDone, board>>
    \/ CreateReportModal_fill /\ UNCHANGED <<prevDone, board>>
    \/ CreateReportModal_handleSubmit /\ UNCHANGED <<prevDone, board>>
    \/ \E c \in CallIds : CreateReportModal_response(c, ModalResponses)
                               /\ UNCHANGED <<prevDone, loads, latest, detailsModal>>
    \/ CreateReportModal_handleClose /\ UNCHANGED <<prevDone, board>>

PageSpec == Init /\ [][PageNext]_vars

\* responses to POST /login in ClientSpec: every transport failure, the
\* rejections 401, 403 and 500, a success with the token in the body, and a
\* success that carries no token anywhere (the demo token)
ClientLoginResponses ==
    NetErrors
    \cup { r \in SessionLoginResponses : r.kind = "http" /\ r.bearer = Undef }
    \cup { r \in ErrResponses : /\ r.status \in {403, 500} /\ r.statusText = ""
                                /\ r.json /\ r.message = Str(<<"server says no">>)
                                /\ r.errors = "undefined" }
    \cup { r \in LoginOkResponses :
             /\ r.json
             /\ r.bearer = Undef /\ r.token = Undef /\ r.access_token = Undef
             /\ r.hAuthorization = Null
             /\ r.hXAuthToken = Null /\ r.hAccessToken = Null }

\* The client driven by one caller that awaits each call before the next,
\* against every response a call through request() can get.
ClientNext ==
    \/ initAuth /\ UNCHANGED <<ui, prevDone>>
    \/ \E c \in CallIds : initAuth_whoami(c, AllRequestResponses)
                               /\ UNCHANGED <<ui, prevDone>>
    \/ Pending = 0 /\ AuthProvider_login /\ UNCHANGED <<ui, prevDone>>
    \/ \E c \in CallIds : login_response(c, ClientLoginResponses)
                               /\ UNCHANGED <<ui, prevDone>>
    \/ \E c \in CallIds : login_whoami(c, AllRequestResponses)
                               /\ UNCHANGED <<ui, prevDone>>
    \/ AuthProvider_logout /\ UNCHANGED <<ui, prevDone>>
    \/ Pending = 0 /\ \E op \in Ops, hdrs \in CallerHeaders :
                          request_options(op, hdrs) /\ UNCHANGED <<ui, prevDone>>
    \/ \E c \in CallIds : request_response(c, AllRequestResponses)
                               /\ UNCHANGED <<ui, prevDone>>

ClientSpec == Init /\ [][ClientNext]_vars

\* Concurrent callers of the context: logins overlap each other and logout.
Logins == Cardinality({c \in CallIds : calls[c].op = "login"})

\* the server answers each request: POST /login with a token or a 401,
\* whoami with the user or a 401
RaceLoginResponses == { r \in SessionLoginResponses : r.kind = "http" }

RaceWhoamiResponses ==
    { r \in RequestResponses : r.kind = "http" /\ (~ok(r) \/ r.data = "u1") }

RaceNext ==
    \/ initAuth /\ UNCHANGED <<ui, prevDone>>
    \/ \E c \in CallIds : initAuth_whoami(c, RaceWhoamiResponses)
                               /\ UNCHANGED <<ui, prevDone>>
    \/ Logins < MaxLogins /\ AuthProvider_login /\ UNCHANGED <<ui, prevDone>>
    \/ \E c \in CallIds : login_response(c, RaceLoginResponses)
                               /\ UNCHANGED <<ui, prevDone>>
    \/ \E c \in CallIds : login_whoami(c, RaceWhoamiResponses)
                               /\ UNCHANGED <<ui, prevDone>>
    \/ AuthProvider_logout /\ UNCHANGED <<ui, prevDone>>

RaceSpec == Init /\ [][RaceNext]_vars

\* Read operations only, overlapping freely; prevDone remembers any one of
\* the reads that settled before.
ReadOps == {"reports", "templates"}

ReadNext ==
    \/ initAuth /\ UNCHANGED <<ui, prevDone>>
    \/ \E c \in CallIds : initAuth_whoami(c, RequestResponses)
                               /\ UNCHANGED <<ui, prevDone>>
    \/ \E op \in ReadOps : request(op) /\ UNCHANGED <<ui, prevDone>>
    \/ \E c \in CallIds : /\ request_response(c, RequestResponses)
                            /\ prevDone' \in {prevDone, lastDone}
                            /\ UNCHANGED ui

ReadSpec == Init /\ [][ReadNext]_vars

\* The Dashboard of a restored session: the mount effect, the interval and
\* the Refresh button start loads that overlap, and the user pages through
\* the list.
DashNext ==
    \/ initAuth /\ UNCHANGED <<ui, prevDone>>
    \/ \E c \in CallIds : initAuth_whoami(c, RaceWhoamiResponses)
                               /\ UNCHANGED <<ui, prevDone>>
    \/ Dashboard_useEffect /\ UNCHANGED prevDone
    \/ Dashboard_interval /\ UNCHANGED prevDone
    \/ Dashboard_handleRefresh /\ UNCHANGED prevDone
    \/ \E i \in 1..MaxLoads : loadData_response(i, LoadResponses) /\ UNCHANGED prevDone
    \/ Dashboard_handlePrevPage /\ UNCHANGED prevDone
    \/ Dashboard_handleNextPage /\ UNCHANGED prevDone
    \/ \E page \in 1..totalPages(MaxReports) :
           Dashboard_handlePageChange(page) /\ UNCHANGED prevDone

DashSpec == Init /\ [][DashNext]_vars

\* The report-details modal on a Dashboard that has loaded its list: rows are
\* clicked, the modal is closed and opened again while getReport calls are
\* in flight.
DetailsNext ==
    \/ initAuth /\ UNCHANGED <<ui, prevDone>>
    \/ \E c \in CallIds : initAuth_whoami(c, RaceWhoamiResponses)
                               /\ UNCHANGED <<ui, prevDone>>
    \/ Dashboard_useEffect /\ UNCHANGED prevDone
    \/ \E i \in 1..MaxLoads : loadData_response(i, LoadResponses) /\ UNCHANGED prevDone
    \/ \E r \in Reports : Dashboard_handleReportClick(r) /\ UNCHANGED prevDone
    \/ \E c \in CallIds : ReportDetailsModal_response(c, LoadResponses)
                               /\ UNCHANGED prevDone
    \/ ReportDetailsModal_handleClose /\ UNCHANGED prevDone

DetailsSpec == Init /\ [][DetailsNext]_vars

\* ===================================================================== claims
Bearer(tok) == Str(<<"Bearer ">> \o tok.s)

\* the steps in which call c, a login awaiting its follow-up whoami, returns
LoginReturns(c) ==
    calls[c].op = "login" /\ calls[c].pc = "whoami" /\ calls'[c].pc = "idle"

\* the steps in which the credential is written
Written == token' # token \/ storage' # storage

\* the steps that start a whoami lookup
WhoamiIssued ==
    \E c \in CallIds :
        /\ calls'[c] # calls[c]
        /\ \/ calls'[c].op = "whoami" /\ calls'[c].pc = "fetch"
           \/ calls'[c].op = "login" /\ calls'[c].pc = "whoami"

\* C1: when a credential was stored at startup and the bootstrap whoami fails,
\* the step that ends the bootstrap leaves no credential in memory or in
\* storage, isAuthenticated() false and the context user null, and nothing of
\* the failure reaches the UI: the login page is what gets mounted.
C1_StaleCredentialCleared ==
    [][(boot = "whoami" /\ boot' = "done" /\ lastDone'.out.kind = "reject")
        => /\ Truthy(stored0)
           /\ token' = Null /\ storage' = Null
           /\ ~isAuthenticated'
           /\ user' = NoUser
           /\ LoginPageMounted']_vars

C1_Witness ==
    /\ Truthy(stored0) /\ boot = "done"
    /\ lastDone.op = "whoami" /\ lastDone.out.kind = "reject"
    /\ token = Null /\ storage = Null /\ user = NoUser /\ ~loading

\* C2: a login whose follow-up whoami fails rejects with that failure and
\* leaves the client unauthenticated (no credential in memory or storage) when
\* it was unauthenticated before the call.
C2_FailedLoginStaysUnauthenticated ==
    [][\A c \in CallIds :
        (LoginReturns(c) /\ lastDone'.out.kind = "reject" /\ ~Truthy(calls[c].tok0))
        => /\ lastDone'.out = RequestOutcome(lastDone'.resp)
           /\ ~isAuthenticated'
           /\ token' = Null /\ storage' = Null]_vars

\* C3 as stated: every request issued while a credential is held, POST /login
\* included, carries Authorization: Bearer <credential>.
C3_EveryRequestCarriesCredential ==
    Truthy(lastReq.held) => lastReq.authorization = Bearer(lastReq.held)

\* C3 amended: every request issued through request() while a credential is
\* held carries Authorization: Bearer <credential held when it is issued>;
\* POST /login carries no Authorization header, credential or not.
C3_RequestsCarryCredential ==
    /\ (lastReq.endpoint \in Ops /\ Truthy(lastReq.held))
          => lastReq.authorization = Bearer(lastReq.held)
    /\ lastReq.endpoint = "login" => lastReq.authorization = Undef

C3_Witness ==
    /\ lastReq.endpoint = "createReport" /\ Truthy(lastReq.held)
    /\ lastReq.held = token

\* C4 as stated: login writes the credential only in the step that ends the
\* call, after the POST /login and the whoami round-trips.
C4_WrittenOnlyAtEndOfLogin ==
    [][(Written /\ Truthy(token'))
        => \E c \in CallIds : LoginReturns(c)]_vars

\* C4 amended: login writes the credential once, after its POST /login
\* round-trip has completed and before its follow-up whoami is issued; outside
\* login and logout (AuthProvider.logout, or the logout in initAuth's catch)
\* the store is never written, and no write happens while a request of the
\* same operation is in flight.
C4_WrittenBetweenLoginRoundTrips ==
    [][Written
        => \/ /\ token' = Null /\ storage' = Null
              /\ \/ UNCHANGED calls
                 \/ boot = "whoami" /\ boot' = "done"
           \/ \E c \in CallIds :
                 /\ calls[c].op = "login" /\ calls[c].pc = "post"
                 /\ calls'[c].pc = "whoami"
                 /\ token' = calls'[c].tok /\ storage' = calls'[c].tok
                 /\ \A d \in CallIds \ {c} : calls'[d] = calls[d]]_vars

C4_Witness ==
    \E c \in CallIds :
        /\ calls[c].op = "login" /\ calls[c].pc = "whoami"
        /\ token = calls[c].tok /\ storage = calls[c].tok
        /\ token # calls[c].tok0
        /\ lastReq.endpoint = "whoami"

\* C5: when the login response carries token T in its body and the follow-up
\* whoami succeeds with user U, login resolves to {token: T, user: U} and on
\* return memory and storage hold T, whatever credential was held before.
BodyToken(resp) ==
    IF Truthy(resp.bearer) THEN resp.bearer
    ELSE IF Truthy(resp.token) THEN resp.token
    ELSE resp.access_token

C5_LoginResolvesAndPersists ==
    [][\A c \in CallIds :
        (LoginReturns(c) /\ Truthy(BodyToken(calls[c].resp))
                         /\ ok(lastDone'.resp) /\ lastDone'.resp.json)
        => /\ lastDone'.out.kind = "resolve"
           /\ lastDone'.out.token = BodyToken(calls[c].resp)
           /\ lastDone'.out.data = lastDone'.resp.data
           /\ token' = BodyToken(calls[c].resp)
           /\ storage' = BodyToken(calls[c].resp)]_vars

C5_Witness ==
    /\ lastDone.op = "login" /\ lastDone.out.kind = "resolve"
    /\ lastDone.tok0 = Str(<<"tB">>)
    /\ lastDone.out.token = Str(<<"tT">>) /\ lastDone.out.data = "u2"
    /\ token = Str(<<"tT">>) /\ storage = Str(<<"tT">>)
    /\ user = "u2"

\* C6: the credential persisted by a 2xx login response is the first present
\* (non-empty) one of body.bearer, body.token, body.access_token, header
\* Authorization, header X-Auth-Token, header Access-Token, a header value
\* with its leading 'Bearer ' prefix stripped; a placeholder is synthesized
\* only when all six are absent or empty; the persisted value is never empty.
StripPrefix(s) == IF s # << >> /\ Head(s) = "Bearer " THEN Tail(s) ELSE s

Present(v) == v.ty = "string" /\ v.s # << >>

FirstPresent(resp) ==
    IF Present(resp.bearer) THEN resp.bearer
    ELSE IF Present(resp.token) THEN resp.token
    ELSE IF Present(resp.access_token) THEN resp.access_token
    ELSE IF Present(resp.hAuthorization) THEN Str(StripPrefix(resp.hAuthorization.s))
    ELSE IF Present(resp.hXAuthToken) THEN Str(StripPrefix(resp.hXAuthToken.s))
    ELSE IF Present(resp.hAccessToken) THEN Str(StripPrefix(resp.hAccessToken.s))
    ELSE Null

IsPlaceholder(tok) == tok.ty = "string" /\ tok.s # << >> /\ Head(tok.s) = "demo-token-"

C6_TokenPriority ==
    \A c \in CallIds :
        (calls[c].op = "login" /\ calls[c].pc = "whoami")
        => /\ Present(calls[c].tok)
           /\ IF FirstPresent(calls[c].resp) = Null
              THEN IsPlaceholder(calls[c].tok)
              ELSE calls[c].tok = FirstPresent(calls[c].resp)

\* C7: a non-success login response makes login throw ApiError with the
\* response's status; the message is the body's message when the body supplies
\* a (non-empty) one, else the canned text for 401, 403, 429 and >= 500, else
\* 'HTTP <status>: <statusText>'; the field errors are the body's errors map.
CannedMessage(resp) ==
    CASE resp.status = 401 -> <<"Login failed. Please check your email and password.">>
      [] resp.status = 403 -> <<"Login failed. Your account may not be enabled for the API beta program. Please contact support for access.">>
      [] resp.status = 429 -> <<"Too many login attempts. Please wait a moment before trying again.">>
      [] resp.status >= 500 -> <<"Server error. Please try again later.">>
      [] OTHER -> <<"HTTP ", ToString(resp.status), ": ", resp.statusText>>

C7_LoginErrorMessage ==
    (lastDone.op = "login" /\ lastDone.at = "post"
        /\ lastDone.resp.kind = "http" /\ ~ok(lastDone.resp))
    => /\ lastDone.out.kind = "reject"
       /\ lastDone.out.etype = "ApiError"
       /\ lastDone.out.status = lastDone.resp.status
       /\ lastDone.out.message =
             IF Present(lastDone.resp.message) THEN lastDone.resp.message.s
                                               ELSE CannedMessage(lastDone.resp)
       /\ lastDone.out.errors = lastDone.resp.errors

C7_Witness ==
    /\ lastDone.op = "login" /\ lastDone.out.etype = "ApiError"
    /\ lastDone.resp.status = 401
    /\ lastDone.resp.message = Str(<<"server says no">>)
    /\ lastDone.out.message = <<"server says no">>
    /\ lastDone.out.errors = "e1"

\* C8: logout removes the credential from memory and from storage, makes
\* isAuthenticated() false and issues no request, from whatever state it is
\* called in.
C8_LogoutClears ==
    [][AuthProvider_logout
        => /\ token' = Null /\ storage' = Null
           /\ ~isAuthenticated'
           /\ lastReq' = lastReq /\ calls' = calls]_vars

\* logout has acted: a login had returned a session, and it is gone
C8_Witness ==
    /\ lastDone.op = "login" /\ lastDone.out.kind = "resolve"
    /\ token = Null /\ storage = Null /\ user = NoUser
    /\ Pending = 0

\* C9: with no credential stored at startup isAuthenticated() is false, and
\* the bootstrap ends in its first step without issuing any request, leaving
\* the user null.
C9_NoCredentialNoRequest ==
    [][(boot = "init" /\ ~Truthy(stored0))
        => /\ ~isAuthenticated
           /\ boot' = "done" /\ ~loading'
           /\ user' = NoUser
           /\ lastReq' = NoReq /\ Pending' = 0]_vars

C9_Witness ==
    /\ ~Truthy(stored0) /\ boot = "done" /\ ~loading
    /\ user = NoUser /\ lastReq = NoReq /\ lastDone.op = "none"

\* C10: with a credential stored at startup the client is authenticated right
\* after construction with no request made; the bootstrap issues one whoami
\* and nothing else is issued while it is pending; when it succeeds the
\* returned user is cached and the credential stays as stored; and while that
\* user is cached (until logout) no step issues another whoami.
C10_BootstrapLooksUpOnce ==
    /\ [](boot = "init" /\ Truthy(stored0) => isAuthenticated /\ lastReq = NoReq)
    /\ [][(boot = "init" /\ Truthy(stored0))
            => boot' = "whoami" /\ Pending' = 1 /\ WhoamiIssued]_vars
    /\ [][boot = "whoami" => lastReq' = lastReq /\ Pending' <= 1]_vars
    /\ [][(boot = "whoami" /\ boot' = "done" /\ lastDone'.out.kind = "resolve")
            => /\ user' = lastDone'.resp.data /\ user' \in Users
               /\ token' = stored0 /\ storage' = stored0]_vars
    /\ [][(user # NoUser /\ user' # NoUser) => ~WhoamiIssued]_vars

C10_Witness ==
    /\ Truthy(stored0) /\ boot = "done"
    /\ user \in Users /\ token = stored0 /\ storage = stored0
    /\ lastReq.endpoint = "reports" /\ lastDone.op = "templates"

\* the call that settled last went through request(): one of the operations
\* built on it, or the follow-up whoami of a login
ThroughRequest == lastDone.at \in {"fetch", "whoami"}

\* C11 as stated: a non-success response to request makes the call throw
\* ApiError with the response's status, the body's message whenever the body
\* has one (the empty string included) and 'An error occurred' only when the
\* body has none or cannot be parsed, and the body's errors map.
C11_ErrorCarriesBodyMessage ==
    (ThroughRequest /\ lastDone.resp.kind = "http" /\ ~ok(lastDone.resp))
    => /\ lastDone.out.kind = "reject" /\ lastDone.out.etype = "ApiError"
       /\ lastDone.out.status = lastDone.resp.status
       /\ lastDone.out.message =
             IF lastDone.resp.message.ty = "string" THEN lastDone.resp.message.s
                                                    ELSE <<"An error occurred">>
       /\ lastDone.out.errors = lastDone.resp.errors

\* C11 amended: a non-success response to request makes the call throw
\* ApiError with the response's status, the body's message when that is a
\* non-empty string and 'An error occurred' when the message is missing or
\* empty or the body cannot be parsed, and the body's errors map; the call
\* never returns a value and never throws another type of error.
C11_NonSuccessThrowsApiError ==
    (ThroughRequest /\ lastDone.resp.kind = "http" /\ ~ok(lastDone.resp))
    => /\ lastDone.out.kind = "reject" /\ lastDone.out.etype = "ApiError"
       /\ lastDone.out.status = lastDone.resp.status
       /\ lastDone.out.message =
             IF Present(lastDone.resp.message) THEN lastDone.resp.message.s
                                               ELSE <<"An error occurred">>
       /\ lastDone.out.errors = lastDone.resp.errors

C11_Witness ==
    /\ lastDone.op = "createReport" /\ lastDone.resp.status = 422
    /\ lastDone.resp.message = Str(<< >>) /\ lastDone.resp.errors = "e1"
    /\ lastDone.out.etype = "ApiError" /\ lastDone.out.status = 422
    /\ lastDone.out.message = <<"An error occurred">>
    /\ lastDone.out.errors = "e1"

\* C12: when the fetch of request or of login rejects, the call rejects with
\* the error the fetch rejected with: same type, same message, not an ApiError.
C12_TransportErrorPropagates ==
    lastDone.resp.kind = "neterr"
    => /\ lastDone.out.kind = "reject"
       /\ lastDone.out.etype = "TypeError"
       /\ lastDone.out.message = lastDone.resp.message.s
       /\ lastDone.out.status = 0 /\ lastDone.out.errors = "undefined"

C12_Witness ==
    /\ lastDone.op = "login" /\ lastDone.at = "post"
    /\ lastDone.resp.kind = "neterr"
    /\ lastDone.out.etype = "TypeError"
    /\ lastDone.out.message = <<"Load failed">>
    /\ lastReq.endpoint = "login"

\* the steps in which call c settles
Settles(c) == calls[c].pc # "idle" /\ calls'[c].pc = "idle"

\* a response that is a failure: the fetch rejected, or a non-success status
Failure(resp) == resp.kind = "neterr" \/ (resp.kind = "http" /\ ~ok(resp))

\* C13: no retries.  A call through request has issued exactly one fetch
\* while it is pending and when it settles; a login has issued one POST
\* /login, and one whoami more once it is past the POST; a step that issues a
\* fetch issues one; and a call resumed by a failure settles in that step,
\* with one rejection, issuing nothing more.
C13_NoRetries ==
    /\ [](\A c \in CallIds :
            /\ calls[c].pc \in {"fetch", "post"} => calls[c].sent = 1
            /\ calls[c].pc = "whoami" => calls[c].sent = 2
            /\ calls[c].pc = "idle" => calls[c].sent = 0)
    /\ [](/\ lastDone.op \in Ops => lastDone.sent = 1
          /\ lastDone.op = "login"
                => lastDone.sent = IF lastDone.at = "post" THEN 1 ELSE 2)
    /\ [][\A c \in CallIds :
            /\ calls'[c].sent <= calls[c].sent + 1
            /\ calls'[c].sent > calls[c].sent
                  => \A d \in CallIds \ {c} : calls'[d] = calls[d]]_vars
    /\ [][\A c \in CallIds :
            (Settles(c) /\ Failure(lastDone'.resp))
            => /\ lastDone'.out.kind = "reject"
               /\ lastReq' = lastReq
               /\ \A d \in CallIds \ {c} : calls'[d] = calls[d]]_vars

C13_Witness ==
    /\ lastDone.op = "login" /\ lastDone.at = "whoami" /\ lastDone.sent = 2
    /\ lastDone.resp.status = 500 /\ lastDone.out.kind = "reject"
    /\ lastReq.endpoint = "whoami" /\ Pending = 0

\* C14: in the step in which a login stores the credential it extracted, it
\* issues its follow-up whoami, and that whoami carries Authorization: Bearer
\* <that credential>, whatever other logins are pending and whatever logout
\* did before.
C14_FollowUpCarriesOwnCredential ==
    [][\A c \in CallIds :
        (calls[c].op = "login" /\ calls[c].pc = "post" /\ calls'[c].pc = "whoami")
        => /\ Truthy(calls'[c].tok)
           /\ token' = calls'[c].tok /\ storage' = calls'[c].tok
           /\ lastReq'.endpoint = "whoami"
           /\ lastReq'.held = calls'[c].tok
           /\ lastReq'.authorization = Bearer(calls'[c].tok)]_vars

\* two logins overlap: one awaits its whoami with the credential it stored,
\* the other has just stored a different one and issued its own whoami
C14_Witness ==
    \E c, d \in CallIds :
        /\ c # d
        /\ calls[c].op = "login" /\ calls[c].pc = "whoami"
        /\ calls[d].op = "login" /\ calls[d].pc = "whoami"
        /\ calls[c].tok = Str(<<"tB">>) /\ calls[d].tok = Str(<<"tT">>)
        /\ token = Str(<<"tT">>)
        /\ lastReq.endpoint = "whoami"
        /\ lastReq.authorization = Bearer(Str(<<"tT">>))

\* C15: in request a header supplied by the caller replaces the client's
\* header of the same name: Content-Type replaces 'application/json', and
\* Authorization replaces 'Bearer <token>' also when a credential is held.
C15_CallerHeadersOverride ==
    lastReq.endpoint \in Ops
    => /\ lastReq.supplied.contentType # Undef
            => lastReq.contentType = lastReq.supplied.contentType
       /\ lastReq.supplied.authorization # Undef
            => lastReq.authorization = lastReq.supplied.authorization

\* the steps in which a call made by a component through request() starts or
\* settles
ReadStep ==
    \E c \in CallIds :
        /\ calls'[c] # calls[c]
        /\ calls[c].via = "page" \/ calls'[c].via = "page"

C17_GenericErrorShowsFixedText ==
    [][\A c \in CallIds :
        (Settles(c) /\ calls[c].op = "login"
            /\ lastDone'.out.kind = "reject" /\ lastDone'.out.etype # "ApiError")
        => /\ loginPage'.error = <<"An unexpected error occurred">>
           /\ ~loginPage'.loading]_vars

\* C18: when apiClient.login rejects, AuthProvider.login rejects with that
\* same error (the transport error, the ApiError built from the POST /login
\* response, or the failure of the follow-up whoami), and the context user is
\* null before and after: the context's isAuthenticated stays false.
C18_FailedLoginLeavesContext ==
    [][\A c \in CallIds :
        (Settles(c) /\ calls[c].op = "login" /\ lastDone'.out.kind = "reject")
        => /\ lastDone'.out =
                IF calls[c].pc = "whoami" THEN RequestOutcome(lastDone'.resp)
                ELSE IF lastDone'.resp.kind = "neterr" THEN FetchError(lastDone'.resp)
                ELSE ApiError(lastDone'.resp.status,
                              LoginErrorMessage(lastDone'.resp),
                              lastDone'.resp.errors)
           /\ user = NoUser /\ user' = NoUser
           /\ ~DashboardMounted']_vars

C18_Witness ==
    /\ lastDone.op = "login" /\ lastDone.at = "post"
    /\ lastDone.out.etype = "ApiError" /\ lastDone.out.status = 401
    /\ user = NoUser /\ LoginPageMounted /\ ~LoginInFlight

\* C19: loading is true from mount until the bootstrap finishes and false
\* from then on: it is false after the step that ends the bootstrap on each
\* of its paths (no credential, whoami resolved, whoami rejected), it never
\* becomes true again, and no step of login or logout changes it.
C19_LoadingUntilBootstrapEnds ==
    /\ [](loading <=> boot # "done")
    /\ [][(boot # "done" /\ boot' = "done") => ~loading']_vars
    /\ [][~loading => ~loading']_vars
    /\ [][boot = "done" => loading' = loading]_vars

\* the bootstrap ended on its failure path, and a login and a logout followed
C19_Witness ==
    /\ ~loading /\ boot = "done" /\ Truthy(stored0)
    /\ lastDone.op = "login" /\ lastDone.out.kind = "resolve"
    /\ lastDone.tok0 = Null
    /\ user = NoUser /\ token = Null

\* C20: while the create-report modal is submitting it stays as it is (a
\* close request changes nothing: still open, form and error kept) until its
\* createReport settles or the Dashboard unmounts; a createReport is issued
\* only by a modal that is not submitting, so the modal has one createReport
\* in flight at most; and the step in which that request settles, resolved or
\* rejected, ends the submitting state.
C20_ModalLockedWhileSubmitting ==
    /\ [](createModal.loading
            => /\ createModal.isOpen /\ createModal.call \in CallIds
               /\ calls[createModal.call].op = "createReport"
               /\ calls[createModal.call].pc = "fetch")
    /\ [](~createModal.loading => createModal.call = 0)
    /\ [][(createModal.loading /\ user' # NoUser
            /\ calls'[createModal.call] = calls[createModal.call])
          => createModal' = createModal]_vars
    /\ [][(\E c \in CallIds : calls[c].pc = "idle" /\ calls'[c].op = "createReport")
          => /\ ~createModal.loading
             /\ createModal'.loading
             /\ calls'[createModal'.call] # calls[createModal'.call]]_vars
    /\ [][(createModal.loading /\ Settles(createModal.call))
          => ~createModal'.loading]_vars

\* a submission failed on validation: the modal is still open with its form,
\* shows the error and is no longer submitting
C20_Witness ==
    /\ createModal.isOpen /\ ~createModal.loading
    /\ createModal.formData = "filled" /\ createModal.error = <<"e1", "[0]">>
    /\ lastDone.op = "createReport" /\ lastDone.out.status = 422
    /\ Pending = 0

\* the step in which the createReport awaited by the mounted modal rejects
CreateRejected ==
    /\ createModal.loading /\ Settles(createModal.call)
    /\ lastDone'.op = "createReport" /\ lastDone'.out.kind = "reject"

\* C21: when the createReport of the create-report modal rejects, the modal
\* shows one non-empty error text: the first message of the first field for
\* an ApiError whose field-errors map has one, the error's message for any
\* other ApiError, and 'An unexpected error occurred' for any other error;
\* the modal stays open (onSuccess is not called), is no longer submitting,
\* and the entered form data is kept.
C21_RejectedCreateShowsOneError ==
    [][CreateRejected
       => LET out == lastDone'.out IN
          /\ createModal'.error =
               IF out.etype = "ApiError" /\ out.errors = "e1" THEN <<"e1", "[0]">>
               ELSE IF out.etype = "ApiError" THEN out.message
               ELSE <<"An unexpected error occurred">>
          /\ createModal'.error # << >>
          /\ createModal'.isOpen /\ ~createModal'.loading
          /\ createModal'.formData = createModal.formData
          /\ createModal'.formData = "filled"
          /\ dashboard' = dashboard]_vars

\* a submission was rejected with a field-errors map that has no message: the
\* modal shows the ApiError's own message and keeps the form
C21_Witness ==
    /\ createModal.isOpen /\ ~createModal.loading
    /\ createModal.formData = "filled"
    /\ createModal.error = <<"server says no">>
    /\ lastDone.op = "createReport" /\ lastDone.out.etype = "ApiError"
    /\ lastDone.out.errors = NoFieldMessage

\* C23: the in-memory credential and the storage slot agree in every state
\* the client can reach by construction, logins with any outcome, logouts
\* and requests: both are absent, or both hold the same one token.
C23_MemoryAndStorageAgree ==
    /\ token = storage
    /\ token = Null \/ (token.ty = "string" /\ token.s # << >>)

\* a login that found no token stored a demo token, over the token the
\* client was constructed with
C23_Witness ==
    /\ Truthy(stored0) /\ token # stored0
    /\ token = storage /\ IsPlaceholder(token)
    /\ lastDone.op = "login" /\ lastDone.out.kind = "resolve"

\* C24: under any interleaving of bootstrap, login and logout on the auth
\* context, whenever the context reports a user the client holds a
\* credential.
C24_UserImpliesCredential ==
    user # NoUser => isAuthenticated

\* C25: the token in the value a login returns is the token that this call
\* extracted from its own POST /login response, whatever logout or other
\* login ran while its follow-up whoami was in flight.
C25_LoginReturnsOwnToken ==
    [][\A c \in CallIds :
          (LoginReturns(c) /\ lastDone'.out.kind = "resolve")
          => /\ lastDone'.out.token = calls[c].tok
             /\ lastDone'.out.token # Null]_vars

\* the response a login's POST /login got in the step that resumes the login
PostResponse(c) == IF calls'[c].pc = "idle" THEN lastDone'.resp ELSE calls'[c].resp

\* a response outside 200..299, or no response at all
NonSuccess(resp) ==
    resp.kind = "neterr" \/ resp.status < 200 \/ resp.status > 299

\* C26: a login whose POST /login gets a non-success response, or fails at
\* the network layer, rejects in the step that resumes it, writes neither the
\* credential in memory nor the one in storage (the start of a login writes
\* neither as well), and issues no whoami request: the POST stays the one
\* request of the call.
C26_FailedLoginKeepsCredential ==
    [][\A c \in CallIds :
          (/\ calls[c].op = "login" /\ calls[c].pc = "post"
           /\ calls'[c] # calls[c]
           /\ NonSuccess(PostResponse(c)))
          => /\ calls'[c].pc = "idle" /\ lastDone'.out.kind = "reject"
             /\ token' = token /\ storage' = storage
             /\ lastReq' = lastReq /\ ~WhoamiIssued
             /\ calls[c].sent = 1 /\ lastDone'.sent = 1]_vars
    /\ [][(\E c \in CallIds : calls[c].pc = "idle" /\ calls'[c].op = "login")
          => token' = token /\ storage' = storage]_vars

\* a login made while a credential was held was refused with 403: the
\* credential the call found is still held, in memory and in storage, and
\* the last request sent is the POST /login
C26_Witness ==
    /\ lastDone.op = "login" /\ lastDone.at = "post"
    /\ lastDone.resp.kind = "http" /\ lastDone.resp.status = 403
    /\ lastDone.out.etype = "ApiError"
    /\ Truthy(lastDone.tok0)
    /\ token = lastDone.tok0 /\ storage = lastDone.tok0
    /\ lastReq.endpoint = "login"

\* the steps of a call that is inside request(): its start, and its
\* settlement (the follow-up whoami of a login included)
RequestStarts(c) == calls[c].pc = "idle" /\ calls'[c].pc = "fetch"
RequestSettles(c) == calls[c].pc \in {"fetch", "whoami"} /\ calls'[c].pc = "idle"

\* C27: request and the convenience operations built on it leave the
\* credential as it is, in memory and in storage, when they start and when
\* they settle, whatever the outcome (a 401 included); the one write in such a
\* step is the logout that initAuth's catch calls after a failed bootstrap
\* whoami.  A step that writes the credential is the store of a login or a
\* logout.
C27_RequestLeavesCredential ==
    /\ [][\A c \in CallIds :
             (RequestStarts(c) \/ RequestSettles(c))
             => \/ token' = token /\ storage' = storage
                \/ /\ calls[c].via = "boot" /\ lastDone'.out.kind = "reject"
                   /\ token' = Null /\ storage' = Null]_vars
    /\ [][Written
          => \/ \E c \in CallIds : /\ calls[c].op = "login" /\ calls[c].pc = "post"
                                   /\ calls'[c].pc = "whoami"
             \/ /\ token' = Null /\ storage' = Null
                /\ \A c \in CallIds : calls[c].via # "boot" => calls'[c] = calls[c]]_vars

\* a createReport made with a credential got a 401: the credential is still
\* held, in memory and in storage
C27_Witness ==
    /\ lastDone.op = "createReport" /\ lastDone.at = "fetch"
    /\ lastDone.resp.kind = "http" /\ lastDone.resp.status = 401
    /\ lastDone.out.etype = "ApiError"
    /\ lastReq.endpoint = "createReport"
    /\ Truthy(token) /\ token = lastReq.held /\ storage = token

\* C22: when a load fails because getReports or getTemplates rejects, the
\* reports list and the templates list keep their values (also when the other
\* fetch had resolved), the loading and refreshing flags are false
\* afterwards, and nothing else of the application changes: the error goes
\* no further than loadData's catch.
C22_FailedLoadKeepsLists ==
    [][(Len(loads') < Len(loads) /\ latest' \in {"failed", "failedAfterOne"})
       => /\ dashboard'.reports = dashboard.reports
          /\ dashboard'.templates = dashboard.templates
          /\ ~dashboard'.loading /\ ~dashboard'.refreshing
          /\ dashboard'.currentPage = dashboard.currentPage
          /\ UNCHANGED <<token, storage, user, loading, boot, calls, lastDone,
                         loginPage, createModal, detailsModal>>]_vars

\* a refresh failed after one of its two fetches had resolved: the lists an
\* earlier load set are still shown and no flag is set
C22_Witness ==
    /\ latest = "failedAfterOne" /\ loads = << >>
    /\ dashboard.reports = PerPage + 1 /\ dashboard.templates = "T2"
    /\ ~dashboard.loading /\ ~dashboard.refreshing

\* C28: the response of an older load never overwrites the data of a load
\* that was issued later: a load that ends after a later-issued load has
\* set its lists leaves the reports and the templates as they are.
C28_OlderLoadNeverOverwrites ==
    [][\A i \in 1..MaxLoads :
          (i <= Len(loads) /\ loads[i].stale /\ Len(loads') < Len(loads)
           /\ \A k \in 1..Len(loads') :
                 loads'[k] = IF k < i THEN loads[k] ELSE loads[k + 1])
          => /\ dashboard'.reports = dashboard.reports
             /\ dashboard'.templates = dashboard.templates]_vars

\* C29: in every reachable state of the dashboard
\* 1 <= currentPage <= max(1, totalPages).
C29_CurrentPageInRange ==
    /\ dashboard.currentPage >= 1
    /\ dashboard.currentPage <= IF totalPages(dashboard.reports) > 1
                                THEN totalPages(dashboard.reports) ELSE 1

\* C30: whenever the report-details modal displays full report data and is
\* not loading, the data belongs to the selected report.
C30_DetailsBelongToSelectedReport ==
    (/\ detailsModal.isOpen /\ ~detailsModal.loading
     /\ detailsModal.fullReportData.kind # "null")
    => detailsModal.fullReportData.id = detailsModal.report
====
